---- MODULE Spec2Model ----
(***************************************************************************)
(* Research workflow: the eleven-phase state machine (ResearchWorkflow),   *)
(* the workflow context (WorkflowContext), the phase validators and the    *)
(* orchestrator (WorkflowOrchestrator).                                    *)
(*                                                                         *)
(* Abstractions: timestamps (datetime.now) and the workflow id are left    *)
(* out of records and audit entries, and so are the research question, the *)
(* domain, the resources and the project root of the context and the       *)
(* details of a validation result; a file's text is the set of the         *)
(* substrings the validators search for that occur in it; a score is the   *)
(* integer score * ScoreScale.                                             *)
(***************************************************************************)
EXTENDS Integers, Sequences, FiniteSets, TLC

VARIABLES current_state, context, fs, saved, backup, result

vars == <<current_state, context, fs, saved, backup, result>>

----------------------------------------------------------------------------
(* Bounds *)

MaxHistory == 2

MaxAudit == 5

\* the lines of the included-studies file (a header and the rows)
MaxLines == 12
MaxMoves == 4

----------------------------------------------------------------------------
(* workflow_context.py: ResearchPhase *)

PROBLEM_FORMULATION == "problem_formulation"
LITERATURE_REVIEW == "literature_review"
GAP_ANALYSIS == "gap_analysis"
HYPOTHESIS_FORMATION == "hypothesis_formation"
EXPERIMENTAL_DESIGN == "experimental_design"
IRB_APPROVAL == "irb_approval"
DATA_COLLECTION == "data_collection"
ANALYSIS == "analysis"
INTERPRETATION == "interpretation"
WRITING == "writing"
PUBLICATION == "publication"

\* list(ResearchPhase): the enum in definition order
ResearchPhase ==
  << PROBLEM_FORMULATION, LITERATURE_REVIEW, GAP_ANALYSIS,
     HYPOTHESIS_FORMATION, EXPERIMENTAL_DESIGN, IRB_APPROVAL,
     DATA_COLLECTION, ANALYSIS, INTERPRETATION, WRITING, PUBLICATION >>

Phases == { ResearchPhase[i] : i \in 1..Len(ResearchPhase) }

None == "None"

(* workflow_context.py: Mode *)

ASSISTANT == "assistant"
AUTONOMOUS == "autonomous"

Mode == { ASSISTANT, AUTONOMOUS }

\* scores are kept as integers: score * ScoreScale (sixths and sevenths occur)
ScoreScale == 6 * 7

----------------------------------------------------------------------------
(* workflow_context.py: PhaseRecord, ValidationResult, WorkflowContext *)

\* an Optional value: Nothing for None, Some(x) otherwise
Nothing == <<>>
Some(x) == << x >>

PhaseRecord(phase, agent) ==
  [ phase |-> phase, exited |-> FALSE, validation_score |-> Nothing,
    outputs |-> <<>>, agent_used |-> agent, notes |-> "" ]

ValidationResult(passed, score, missing_items, warnings, blocking_issues) ==
  [ passed |-> passed, score |-> score, missing_items |-> missing_items,
    warnings |-> warnings, blocking_issues |-> blocking_issues ]

\* a dict: a function on the keys that were stored
EmptyDict == [ k \in {} |-> None ]

DictPut(d, key, value) ==
  [ k \in DOMAIN d \cup { key } |-> IF k = key THEN value ELSE d[k] ]

\* WorkflowContext(current_phase = phase): the dataclass defaults
WorkflowContext(phase) ==
  [ mode |-> ASSISTANT,
    current_phase |-> phase,
    phase_history |-> <<>>,
    validation_results |-> EmptyDict,
    audit_trail |-> <<>> ]

add_audit_entry(ctx, action, details) ==
  [ ctx EXCEPT !.audit_trail =
      Append(@, [ action |-> action, phase |-> ctx.current_phase,
                  details |-> details ]) ]

\* faulty variant: current_phase is not updated
start_phase_keeps_current(ctx, phase, agent) ==
  LET c1 == [ ctx EXCEPT !.phase_history = Append(@, PhaseRecord(phase, agent)) ]
  IN add_audit_entry(c1, "phase_started", <<phase, agent>>)

\* faulty variant: a phase that was entered before gets its record reopened
start_phase_reuses_record(ctx, phase, agent) ==
  LET old == { i \in 1..Len(ctx.phase_history) : ctx.phase_history[i].phase = phase }
      c1 == IF old = {}
            THEN [ ctx EXCEPT !.phase_history = Append(@, PhaseRecord(phase, agent)),
                              !.current_phase = phase ]
            ELSE [ ctx EXCEPT !.phase_history[CHOOSE i \in old : TRUE] =
                                PhaseRecord(phase, agent),
                              !.current_phase = phase ]
  IN add_audit_entry(c1, "phase_started", <<phase, agent>>)

start_phase(ctx, phase, agent) ==
  LET c1 == [ ctx EXCEPT !.phase_history = Append(@, PhaseRecord(phase, agent)),
                         !.current_phase = phase ]
  IN add_audit_entry(c1, "phase_started", <<phase, agent>>)

\* faulty variant: without a record nothing is stored and nothing is logged
complete_phase_requires_record(ctx, validation_result, outputs) ==
  LET n == Len(ctx.phase_history)
      c1 == [ ctx EXCEPT !.phase_history[n] =
                [ @ EXCEPT !.exited = TRUE,
                           !.validation_score = Some(validation_result.score),
                           !.outputs = outputs ] ]
      c2 == [ c1 EXCEPT !.validation_results =
                          DictPut(@, ctx.current_phase, validation_result) ]
  IN IF n = 0 THEN ctx
     ELSE add_audit_entry(c2, "phase_completed",
            << ctx.current_phase, validation_result.score,
               validation_result.passed, outputs >>)

complete_phase(ctx, validation_result, outputs) ==
  LET n == Len(ctx.phase_history)
      c1 == IF n > 0
            THEN [ ctx EXCEPT !.phase_history[n] =
                     [ @ EXCEPT !.exited = TRUE,
                                !.validation_score =
                                   Some(validation_result.score),
                                !.outputs = outputs ] ]
            ELSE ctx
      c2 == [ c1 EXCEPT !.validation_results =
                          DictPut(@, ctx.current_phase, validation_result) ]
  IN add_audit_entry(c2, "phase_completed",
       << ctx.current_phase, validation_result.score,
          validation_result.passed, outputs >>)

has_completed_phase(ctx, phase) ==
  \E i \in 1..Len(ctx.phase_history) :
     /\ ctx.phase_history[i].phase = phase
     /\ ctx.phase_history[i].exited

get_current_phase_index(ctx) ==
  CHOOSE i \in 1..Len(ResearchPhase) : ResearchPhase[i] = ctx.current_phase

----------------------------------------------------------------------------
(* research_workflow.py: the transition table of the state machine *)

\* event |-> set of <<source, target>>
Transitions ==
  [ start_literature_review    |-> { <<PROBLEM_FORMULATION, LITERATURE_REVIEW>> },
    start_gap_analysis         |-> { <<LITERATURE_REVIEW, GAP_ANALYSIS>> },
    start_hypothesis_formation |-> { <<GAP_ANALYSIS, HYPOTHESIS_FORMATION>> },
    start_experimental_design  |-> { <<HYPOTHESIS_FORMATION, EXPERIMENTAL_DESIGN>> },
    start_irb_approval         |-> { <<EXPERIMENTAL_DESIGN, IRB_APPROVAL>> },
    start_data_collection      |-> { <<IRB_APPROVAL, DATA_COLLECTION>>,
                                     <<EXPERIMENTAL_DESIGN, DATA_COLLECTION>> },
    start_analysis             |-> { <<DATA_COLLECTION, ANALYSIS>> },
    start_interpretation       |-> { <<ANALYSIS, INTERPRETATION>> },
    start_writing              |-> { <<INTERPRETATION, WRITING>> },
    start_publication          |-> { <<WRITING, PUBLICATION>> },
    revise_literature          |-> { <<GAP_ANALYSIS, LITERATURE_REVIEW>>,
                                     <<HYPOTHESIS_FORMATION, LITERATURE_REVIEW>> },
    revise_hypothesis          |-> { <<EXPERIMENTAL_DESIGN, HYPOTHESIS_FORMATION>> },
    revise_data_collection     |-> { <<ANALYSIS, DATA_COLLECTION>> },
    restart_from_problem       |-> { <<LITERATURE_REVIEW, PROBLEM_FORMULATION>>,
                                     <<GAP_ANALYSIS, PROBLEM_FORMULATION>>,
                                     <<HYPOTHESIS_FORMATION, PROBLEM_FORMULATION>>,
                                     <<EXPERIMENTAL_DESIGN, PROBLEM_FORMULATION>> } ]

NoEvent == "no_event"

\* faulty variant: leaving a state is not logged
on_exit_state_silent(ctx, state, event) == ctx

on_exit_state(ctx, state, event) ==
  add_audit_entry(ctx, "state_exited", <<state, event>>)

on_enter_state(ctx, state, event) ==
  add_audit_entry(ctx, "state_entered", <<state, event>>)

\* Sending an event: the transition whose source is the current state runs the
\* exit hook, moves the pointer and runs the enter hook; with no such
\* transition the library raises TransitionNotAllowed and nothing changes.
Allowed(event, state) == \E t \in Transitions[event] : t[1] = state

Target(event, state) ==
  (CHOOSE t \in Transitions[event] : t[1] = state)[2]

\* faulty variant: entering the target also starts its phase in the context
send_starts_phase(state, ctx, event) ==
  IF event # NoEvent /\ Allowed(event, state)
  THEN [ state |-> Target(event, state),
         ctx |-> start_phase(
                   on_enter_state(on_exit_state(ctx, state, event),
                                  Target(event, state), event),
                   Target(event, state), None),
         ok |-> TRUE ]
  ELSE [ state |-> state, ctx |-> ctx, ok |-> FALSE ]

send(state, ctx, event) ==
  IF event # NoEvent /\ Allowed(event, state)
  THEN [ state |-> Target(event, state),
         ctx |-> on_enter_state(on_exit_state(ctx, state, event),
                                Target(event, state), event),
         ok |-> TRUE ]
  ELSE [ state |-> state, ctx |-> ctx, ok |-> FALSE ]

\* faulty variant: the analysis branch sends the revision event
ProgressEvent_wrong_event(state, skip_irb) ==
  CASE state = PROBLEM_FORMULATION  -> "start_literature_review"
    [] state = LITERATURE_REVIEW    -> "start_gap_analysis"
    [] state = GAP_ANALYSIS         -> "start_hypothesis_formation"
    [] state = HYPOTHESIS_FORMATION -> "start_experimental_design"
    [] state = EXPERIMENTAL_DESIGN  -> IF skip_irb THEN "start_data_collection"
                                       ELSE "start_irb_approval"
    [] state = IRB_APPROVAL         -> "start_data_collection"
    [] state = DATA_COLLECTION      -> "start_analysis"
    [] state = ANALYSIS             -> "revise_data_collection"
    [] state = INTERPRETATION       -> "start_writing"
    [] state = WRITING              -> "start_publication"
    [] OTHER                        -> NoEvent

\* faulty variant: skip_irb is ignored
ProgressEvent_ignores_skip(state, skip_irb) ==
  CASE state = PROBLEM_FORMULATION  -> "start_literature_review"
    [] state = LITERATURE_REVIEW    -> "start_gap_analysis"
    [] state = GAP_ANALYSIS         -> "start_hypothesis_formation"
    [] state = HYPOTHESIS_FORMATION -> "start_experimental_design"
    [] state = EXPERIMENTAL_DESIGN  -> "start_irb_approval"
    [] state = IRB_APPROVAL         -> "start_data_collection"
    [] state = DATA_COLLECTION      -> "start_analysis"
    [] state = ANALYSIS             -> "start_interpretation"
    [] state = INTERPRETATION       -> "start_writing"
    [] state = WRITING              -> "start_publication"
    [] OTHER                        -> NoEvent

\* progress_to_next: the if/elif chain on the current state
ProgressEvent(state, skip_irb) ==
  CASE state = PROBLEM_FORMULATION  -> "start_literature_review"
    [] state = LITERATURE_REVIEW    -> "start_gap_analysis"
    [] state = GAP_ANALYSIS         -> "start_hypothesis_formation"
    [] state = HYPOTHESIS_FORMATION -> "start_experimental_design"
    [] state = EXPERIMENTAL_DESIGN  -> IF skip_irb THEN "start_data_collection"
                                       ELSE "start_irb_approval"
    [] state = IRB_APPROVAL         -> "start_data_collection"
    [] state = DATA_COLLECTION      -> "start_analysis"
    [] state = ANALYSIS             -> "start_interpretation"
    [] state = INTERPRETATION       -> "start_writing"
    [] state = WRITING              -> "start_publication"
    [] OTHER                        -> NoEvent

\* faulty variant: the final state reports success
progress_to_next_always_true(state, ctx, skip_irb) ==
  [ send(state, ctx, ProgressEvent(state, skip_irb)) EXCEPT !.ok = TRUE ]

progress_to_next(state, ctx, skip_irb) ==
  send(state, ctx, ProgressEvent(state, skip_irb))

\* faulty variant: hypothesis formation is missing from the sources of
\* revise_literature
RevisionEvent_missing_source(state, phase) ==
  CASE phase = LITERATURE_REVIEW
         /\ state \in {GAP_ANALYSIS} -> "revise_literature"
    [] phase = HYPOTHESIS_FORMATION
         /\ state = EXPERIMENTAL_DESIGN -> "revise_hypothesis"
    [] phase = DATA_COLLECTION
         /\ state = ANALYSIS -> "revise_data_collection"
    [] phase = PROBLEM_FORMULATION
         /\ state \in {LITERATURE_REVIEW, GAP_ANALYSIS,
                       HYPOTHESIS_FORMATION, EXPERIMENTAL_DESIGN}
         -> "restart_from_problem"
    [] OTHER -> NoEvent

\* go_back_to: the if/elif chain on the target phase
RevisionEvent(state, phase) ==
  CASE phase = LITERATURE_REVIEW
         /\ state \in {GAP_ANALYSIS, HYPOTHESIS_FORMATION} -> "revise_literature"
    [] phase = HYPOTHESIS_FORMATION
         /\ state = EXPERIMENTAL_DESIGN -> "revise_hypothesis"
    [] phase = DATA_COLLECTION
         /\ state = ANALYSIS -> "revise_data_collection"
    [] phase = PROBLEM_FORMULATION
         /\ state \in {LITERATURE_REVIEW, GAP_ANALYSIS,
                       HYPOTHESIS_FORMATION, EXPERIMENTAL_DESIGN}
         -> "restart_from_problem"
    [] OTHER -> NoEvent

\* faulty variant: the pointer is set to the target without asking the machine
go_back_to_unchecked(state, ctx, phase) ==
  [ state |-> phase, ctx |-> ctx, ok |-> TRUE ]

go_back_to(state, ctx, phase) ==
  send(state, ctx, RevisionEvent(state, phase))

----------------------------------------------------------------------------
(* validators: the project files the validators read *)

PROBLEM_STATEMENT == "docs/problem_statement.md"
SEARCH_RESULTS == "data/literature/search_results.csv"
SCREENED_ABSTRACTS == "data/literature/screened_abstracts.csv"
INCLUDED_STUDIES == "data/literature/included_studies.csv"
PRISMA_FLOW == "results/prisma_flow_diagram.md"
RISK_OF_BIAS == "results/risk_of_bias_assessment.csv"
PROTOCOL == "docs/experimental_protocol.md"
POWER_ANALYSIS == "docs/power_analysis.md"
RANDOMIZATION == "code/randomization.py"
PREREGISTRATION == "data/preregistration.md"

Paths ==
  { PROBLEM_STATEMENT, SEARCH_RESULTS, SCREENED_ABSTRACTS, INCLUDED_STUDIES,
    PRISMA_FLOW, RISK_OF_BIAS, PROTOCOL, POWER_ANALYSIS, RANDOMIZATION,
    PREREGISTRATION }

\* BaseValidator._file_exists
file_exists(f, filepath) == filepath \in f.files

\* the (lower-cased) text of a file: the set of searched substrings it contains
content(f, filepath) == f.text[filepath]

Card(S) == Cardinality(S)

RECURSIVE Sum(_, _)
Sum(fn, keys) ==
  IF keys = <<>> THEN 0 ELSE fn[Head(keys)] + Sum(fn, Tail(keys))

(* finer_validator.py *)

feasible_keywords ==
  { "feasible", "resource", "budget", "time", "timeline", "sample", "access",
    "data available", "practical" }
interesting_keywords ==
  { "interesting", "significant", "important", "impact", "contribution",
    "advance", "understanding" }
novel_keywords ==
  { "novel", "new", "gap", "unexplored", "first", "original", "innovative",
    "missing", "lack of" }
ethical_keywords ==
  { "ethic", "irb", "consent", "human subjects", "animal", "welfare", "harm",
    "benefit", "risk" }
relevant_keywords ==
  { "relevant", "application", "clinical", "practical", "field", "domain",
    "problem", "address", "solve" }

\* faulty variant: the share of the threshold is not capped at a full score
score_keyword_presence_uncapped(text, keywords, threshold) ==
  LET count == Card(keywords \cap text)
  IN IF threshold = 0 THEN ScoreScale
     ELSE (count * ScoreScale) \div threshold

score_keyword_presence(text, keywords, threshold) ==
  LET count == Card(keywords \cap text)
  IN IF threshold = 0 THEN ScoreScale
     ELSE IF count >= threshold THEN ScoreScale
     ELSE IF count > 0 THEN (count * ScoreScale) \div threshold
     ELSE 0

Max(a, b) == IF a >= b THEN a ELSE b

FinerCriteria == << "feasible", "interesting", "novel", "ethical", "relevant" >>

\* faulty variant: the ethical criterion is scored by its keywords like the
\* other four
evaluate_finer_criteria_ethical_scored(text) ==
  [ feasible    |-> score_keyword_presence(text, feasible_keywords, 1),
    interesting |-> score_keyword_presence(text, interesting_keywords, 1),
    novel       |-> score_keyword_presence(text, novel_keywords, 1),
    ethical     |-> score_keyword_presence(text, ethical_keywords, 1),
    relevant    |-> score_keyword_presence(text, relevant_keywords, 1) ]

evaluate_finer_criteria(text) ==
  [ feasible    |-> score_keyword_presence(text, feasible_keywords, 1),
    interesting |-> score_keyword_presence(text, interesting_keywords, 1),
    novel       |-> score_keyword_presence(text, novel_keywords, 1),
    ethical     |-> Max(score_keyword_presence(text, ethical_keywords, 0),
                        ScoreScale \div 2),
    relevant    |-> score_keyword_presence(text, relevant_keywords, 1) ]

check_research_question(text) ==
  \/ "?" \in text
  \/ text \cap { "research question", "rq", "question" } # {}

Upper ==
  [ feasible |-> "FEASIBLE", interesting |-> "INTERESTING", novel |-> "NOVEL",
    ethical |-> "ETHICAL", relevant |-> "RELEVANT" ]

FINER_can_enter(ctx, f) == ValidationResult(TRUE, ScoreScale, <<>>, <<>>, <<>>)

FINER_can_exit(ctx, f) ==
  IF ~ file_exists(f, PROBLEM_STATEMENT)
  THEN ValidationResult(FALSE, 0, << PROBLEM_STATEMENT >>, <<>>,
         << "Problem statement file not found: " \o PROBLEM_STATEMENT >>)
  ELSE
    LET text == content(f, PROBLEM_STATEMENT)
        has_question == check_research_question(text)
        finer_scores == evaluate_finer_criteria(text)
        rq_score == IF has_question THEN ScoreScale ELSE 0
        total_score == (rq_score + Sum(finer_scores, FinerCriteria))
                          \div (1 + Len(FinerCriteria))
        finer_count ==
          Len(SelectSeq(FinerCriteria, LAMBDA c : 2 * finer_scores[c] >= ScoreScale))
        passed == has_question /\ finer_count >= 4
        weak == SelectSeq(FinerCriteria, LAMBDA c : 2 * finer_scores[c] < ScoreScale)
    IN ValidationResult(
         passed,
         total_score,
         IF ~ passed /\ finer_count < 4
           THEN << "FINER criteria: Only " \o ToString(finer_count)
                     \o "/5 addressed (need >=4)" >>
           ELSE <<>>,
         [ i \in 1..Len(weak) |->
             Upper[weak[i]] \o " criterion not clearly addressed" ],
         IF has_question THEN <<>>
           ELSE << "No clear research question found" >>)

(* prisma_validator.py *)

PRISMA_required_files ==
  << SEARCH_RESULTS, SCREENED_ABSTRACTS, INCLUDED_STUDIES, PRISMA_FLOW >>

\* _count_studies: the lines of the file minus the header line
count_studies(f) == Max(0, f.lines - 1)

\* faulty variant: the prerequisite is looked up in the wrong phase
PRISMA_can_enter_wrong_phase(ctx, f) ==
  IF ~ has_completed_phase(ctx, HYPOTHESIS_FORMATION)
  THEN ValidationResult(FALSE, 0, <<>>, <<>>,
         << "Problem formulation must be complete first" >>)
  ELSE ValidationResult(TRUE, ScoreScale, <<>>, <<>>, <<>>)

PRISMA_can_enter(ctx, f) ==
  IF ~ has_completed_phase(ctx, PROBLEM_FORMULATION)
  THEN ValidationResult(FALSE, 0, <<>>, <<>>,
         << "Problem formulation must be complete first" >>)
  ELSE ValidationResult(TRUE, ScoreScale, <<>>, <<>>, <<>>)

\* faulty variant: fewer than ten included studies fail the gate
PRISMA_can_exit_needs_studies(ctx, f) ==
  LET missing_items ==
        SelectSeq(PRISMA_required_files, LAMBDA p : ~ file_exists(f, p))
      has_included == file_exists(f, INCLUDED_STUDIES)
      study_count == count_studies(f)
      minimum_studies == has_included /\ study_count >= 10
      risk_of_bias == file_exists(f, RISK_OF_BIAS)
      true_checks ==
        (Len(PRISMA_required_files) - Len(missing_items))
          + (IF minimum_studies THEN 1 ELSE 0)
          + (IF risk_of_bias THEN 1 ELSE 0)
      n_checks == Len(PRISMA_required_files) + 2
      passed == /\ \A i \in 1..Len(PRISMA_required_files) :
                      file_exists(f, PRISMA_required_files[i])
                /\ minimum_studies
  IN ValidationResult(
       passed,
       (true_checks * ScoreScale) \div n_checks,
       missing_items,
       (IF has_included /\ study_count < 10
          THEN << "Only " \o ToString(study_count)
                    \o " included studies (recommend >=10)" >>
          ELSE <<>>)
         \o (IF risk_of_bias THEN <<>>
             ELSE << "Risk of bias assessment not found (recommended)" >>),
       IF missing_items # <<>>
         THEN << ToString(Len(missing_items)) \o " required files missing" >>
         ELSE <<>>)

PRISMA_can_exit(ctx, f) ==
  LET missing_items ==
        SelectSeq(PRISMA_required_files, LAMBDA p : ~ file_exists(f, p))
      has_included == file_exists(f, INCLUDED_STUDIES)
      study_count == count_studies(f)
      minimum_studies == has_included /\ study_count >= 10
      risk_of_bias == file_exists(f, RISK_OF_BIAS)
      true_checks ==
        (Len(PRISMA_required_files) - Len(missing_items))
          + (IF minimum_studies THEN 1 ELSE 0)
          + (IF risk_of_bias THEN 1 ELSE 0)
      n_checks == Len(PRISMA_required_files) + 2
      passed == \A i \in 1..Len(PRISMA_required_files) :
                   file_exists(f, PRISMA_required_files[i])
  IN ValidationResult(
       passed,
       (true_checks * ScoreScale) \div n_checks,
       missing_items,
       (IF has_included /\ study_count < 10
          THEN << "Only " \o ToString(study_count)
                    \o " included studies (recommend >=10)" >>
          ELSE <<>>)
         \o (IF risk_of_bias THEN <<>>
             ELSE << "Risk of bias assessment not found (recommended)" >>),
       IF missing_items # <<>>
         THEN << ToString(Len(missing_items)) \o " required files missing" >>
         ELSE <<>>)

(* nih_validator.py *)

NIH_required_files == << PROTOCOL, POWER_ANALYSIS, RANDOMIZATION >>

check_power_analysis(f) ==
  LET text == content(f, POWER_ANALYSIS)
  IN ("0.8" \in text \/ "80%" \in text) /\ "power" \in text

check_random_seed(f) == "seed" \in content(f, RANDOMIZATION)

check_sabv(f) ==
  LET text == content(f, PROTOCOL) IN "sex" \in text \/ "sabv" \in text

NIH_can_enter(ctx, f) ==
  IF ~ has_completed_phase(ctx, HYPOTHESIS_FORMATION)
  THEN ValidationResult(FALSE, 0, <<>>, <<>>,
         << "Hypothesis formation must be complete first" >>)
  ELSE ValidationResult(TRUE, ScoreScale, <<>>, <<>>, <<>>)

\* faulty variant: missing files are listed but not reported as blocking
NIH_can_exit_silent_missing(ctx, f) ==
  LET missing_items ==
        SelectSeq(NIH_required_files, LAMBDA p : ~ file_exists(f, p))
      power_analysis ==
        file_exists(f, POWER_ANALYSIS) /\ check_power_analysis(f)
      random_seed == file_exists(f, RANDOMIZATION) /\ check_random_seed(f)
      preregistration == file_exists(f, PREREGISTRATION)
      sabv == file_exists(f, PROTOCOL) /\ check_sabv(f)
      core_passed == power_analysis /\ random_seed
      true_checks ==
        (Len(NIH_required_files) - Len(missing_items))
          + (IF power_analysis THEN 1 ELSE 0)
          + (IF random_seed THEN 1 ELSE 0)
          + (IF preregistration THEN 1 ELSE 0)
          + (IF sabv THEN 1 ELSE 0)
      n_checks == Len(NIH_required_files) + 4
      passed == core_passed /\ missing_items = <<>>
  IN ValidationResult(
       passed,
       (true_checks * ScoreScale) \div n_checks,
       missing_items,
       IF preregistration THEN <<>>
         ELSE << "Pre-registration document recommended" >>,
       IF passed THEN <<>>
       ELSE (IF ~ core_passed
               THEN << "Core NIH requirements not met (power analysis, randomization)" >>
               ELSE <<>>))

\* faulty variant: one of the two core checks is enough
NIH_can_exit_either_core(ctx, f) ==
  LET missing_items ==
        SelectSeq(NIH_required_files, LAMBDA p : ~ file_exists(f, p))
      power_analysis ==
        file_exists(f, POWER_ANALYSIS) /\ check_power_analysis(f)
      random_seed == file_exists(f, RANDOMIZATION) /\ check_random_seed(f)
      preregistration == file_exists(f, PREREGISTRATION)
      sabv == file_exists(f, PROTOCOL) /\ check_sabv(f)
      core_passed == power_analysis \/ random_seed
      true_checks ==
        (Len(NIH_required_files) - Len(missing_items))
          + (IF power_analysis THEN 1 ELSE 0)
          + (IF random_seed THEN 1 ELSE 0)
          + (IF preregistration THEN 1 ELSE 0)
          + (IF sabv THEN 1 ELSE 0)
      n_checks == Len(NIH_required_files) + 4
      passed == core_passed /\ missing_items = <<>>
  IN ValidationResult(
       passed,
       (true_checks * ScoreScale) \div n_checks,
       missing_items,
       IF preregistration THEN <<>>
         ELSE << "Pre-registration document recommended" >>,
       IF passed THEN <<>>
       ELSE (IF ~ core_passed
               THEN << "Core NIH requirements not met (power analysis, randomization)" >>
               ELSE <<>>)
            \o (IF missing_items # <<>>
                  THEN << ToString(Len(missing_items))
                            \o " required files missing" >>
                  ELSE <<>>))

NIH_can_exit(ctx, f) ==
  LET missing_items ==
        SelectSeq(NIH_required_files, LAMBDA p : ~ file_exists(f, p))
      power_analysis ==
        file_exists(f, POWER_ANALYSIS) /\ check_power_analysis(f)
      random_seed == file_exists(f, RANDOMIZATION) /\ check_random_seed(f)
      preregistration == file_exists(f, PREREGISTRATION)
      sabv == file_exists(f, PROTOCOL) /\ check_sabv(f)
      core_passed == power_analysis /\ random_seed
      true_checks ==
        (Len(NIH_required_files) - Len(missing_items))
          + (IF power_analysis THEN 1 ELSE 0)
          + (IF random_seed THEN 1 ELSE 0)
          + (IF preregistration THEN 1 ELSE 0)
          + (IF sabv THEN 1 ELSE 0)
      n_checks == Len(NIH_required_files) + 4
      passed == core_passed /\ missing_items = <<>>
  IN ValidationResult(
       passed,
       (true_checks * ScoreScale) \div n_checks,
       missing_items,
       IF preregistration THEN <<>>
         ELSE << "Pre-registration document recommended" >>,
       IF passed THEN <<>>
       ELSE (IF ~ core_passed
               THEN << "Core NIH requirements not met (power analysis, randomization)" >>
               ELSE <<>>)
            \o (IF missing_items # <<>>
                  THEN << ToString(Len(missing_items))
                            \o " required files missing" >>
                  ELSE <<>>))

----------------------------------------------------------------------------
(* workflow_context.py: serialization; research_workflow.py: persistence *)

\* faulty variant: the agent of a record is not written
to_dict_drops_agent(ctx) ==
  [ mode |-> ctx.mode,
    current_phase |-> ctx.current_phase,
    phase_history |->
      [ i \in 1..Len(ctx.phase_history) |->
          [ phase |-> ctx.phase_history[i].phase,
            exited |-> ctx.phase_history[i].exited,
            validation_score |-> ctx.phase_history[i].validation_score,
            outputs |-> ctx.phase_history[i].outputs,
            notes |-> ctx.phase_history[i].notes ] ],
    validation_results |->
      [ p \in DOMAIN ctx.validation_results |-> ctx.validation_results[p] ],
    audit_trail |-> ctx.audit_trail ]

\* to_dict: the enums by their values, a record and a result as a dict of
\* their fields
to_dict(ctx) ==
  [ mode |-> ctx.mode,
    current_phase |-> ctx.current_phase,
    phase_history |->
      [ i \in 1..Len(ctx.phase_history) |->
          [ phase |-> ctx.phase_history[i].phase,
            exited |-> ctx.phase_history[i].exited,
            validation_score |-> ctx.phase_history[i].validation_score,
            outputs |-> ctx.phase_history[i].outputs,
            agent_used |-> ctx.phase_history[i].agent_used,
            notes |-> ctx.phase_history[i].notes ] ],
    validation_results |->
      [ p \in DOMAIN ctx.validation_results |-> ctx.validation_results[p] ],
    audit_trail |-> ctx.audit_trail ]

\* data.get(key, default); a keyword argument left out takes the default of
\* the dataclass field
Get(data, key, default) == IF key \in DOMAIN data THEN data[key] ELSE default

\* Mode(value), ResearchPhase(value): the member with that value
Mode_of(value) == CHOOSE m \in Mode : m = value

ResearchPhase_of(value) == CHOOSE p \in Phases : p = value

\* PhaseRecord(**record_data)
PhaseRecord_from(record_data) ==
  [ phase |-> ResearchPhase_of(record_data.phase),
    exited |-> Get(record_data, "exited", FALSE),
    validation_score |-> Get(record_data, "validation_score", Nothing),
    outputs |-> Get(record_data, "outputs", <<>>),
    agent_used |-> Get(record_data, "agent_used", None),
    notes |-> Get(record_data, "notes", "") ]

\* ValidationResult(**result_data)
ValidationResult_from(result_data) ==
  ValidationResult(result_data.passed, result_data.score,
                   Get(result_data, "missing_items", <<>>),
                   Get(result_data, "warnings", <<>>),
                   Get(result_data, "blocking_issues", <<>>))

from_dict(data) ==
  LET history == Get(data, "phase_history", <<>>)
      results == Get(data, "validation_results", EmptyDict)
  IN [ mode |-> Mode_of(data.mode),
       current_phase |-> ResearchPhase_of(data.current_phase),
       phase_history |->
         [ i \in 1..Len(history) |-> PhaseRecord_from(history[i]) ],
       validation_results |->
         [ p \in DOMAIN results |-> ValidationResult_from(results[p]) ],
       audit_trail |-> Get(data, "audit_trail", <<>>) ]

\* WorkflowContext.save / load: json.dump writes and json.load reads back the
\* strings, numbers, booleans, nulls, lists and string-keyed dicts of to_dict
save(ctx) == Some(to_dict(ctx))

load(file) == from_dict(file[1])

\* create_backup: the timestamped copy of the context written before a transition
create_backup(ctx) == save(ctx)

\* ResearchWorkflow.__init__: the library activates the initial state, which
\* (depending on the library version) runs the enter hook for it; then
\* _set_state_from_context points the machine at context.current_phase.
ResearchWorkflow_init(ctx, initial_hook) ==
  [ state |-> ctx.current_phase,
    ctx |-> IF initial_hook
            THEN on_enter_state(ctx, PROBLEM_FORMULATION, "__initial__")
            ELSE ctx ]

create_workflow(mode, initial_hook) ==
  LET wf == ResearchWorkflow_init(
              [ WorkflowContext(PROBLEM_FORMULATION) EXCEPT !.mode = mode ],
              initial_hook)
  IN [ state |-> wf.state,
       ctx |-> start_phase(wf.ctx, PROBLEM_FORMULATION, None) ]

\* faulty variant: the phase is taken from the context, not from the machine
can_progress_of_context_phase(state, ctx) ==
  IF state = PUBLICATION THEN FALSE
  ELSE has_completed_phase(ctx, ctx.current_phase)

\* ResearchWorkflow.can_progress
can_progress(state, ctx) ==
  IF state = PUBLICATION THEN FALSE
  ELSE has_completed_phase(ctx, state)

\* ResearchWorkflow.get_next_phase: the index is that of context.current_phase
get_next_phase(ctx) ==
  LET current_index == get_current_phase_index(ctx)
  IN IF current_index < Len(ResearchPhase)
     THEN ResearchPhase[current_index + 1]
     ELSE None

\* faulty variant: every closed record counts, also a second one of a phase
get_progress_percentage_counts_records(ctx) ==
  [ num |-> 100 * Len(SelectSeq(ctx.phase_history, LAMBDA r : r.exited)),
    den |-> Len(ResearchPhase) ]

\* the percentage as the fraction num / den
get_progress_percentage(ctx) ==
  [ num |-> 100 * Card({ p \in Phases : has_completed_phase(ctx, p) }),
    den |-> Len(ResearchPhase) ]

----------------------------------------------------------------------------
(* orchestrator.py *)

FINER == "FINERValidator"
PRISMA == "PRISMAValidator"
NIH == "NIHRigorValidator"

PHASE_VALIDATORS ==
  [ p \in Phases |->
      CASE p = PROBLEM_FORMULATION -> FINER
        [] p = LITERATURE_REVIEW   -> PRISMA
        [] p = EXPERIMENTAL_DESIGN -> NIH
        [] OTHER                   -> None ]

can_enter(validator, ctx, f) ==
  CASE validator = FINER  -> FINER_can_enter(ctx, f)
    [] validator = PRISMA -> PRISMA_can_enter(ctx, f)
    [] validator = NIH    -> NIH_can_enter(ctx, f)

can_exit(validator, ctx, f) ==
  CASE validator = FINER  -> FINER_can_exit(ctx, f)
    [] validator = PRISMA -> PRISMA_can_exit(ctx, f)
    [] validator = NIH    -> NIH_can_exit(ctx, f)

validate_entry(ctx, f, phase) ==
  IF PHASE_VALIDATORS[phase] # None
  THEN can_enter(PHASE_VALIDATORS[phase], ctx, f)
  ELSE ValidationResult(TRUE, ScoreScale, <<>>, <<>>, <<>>)

\* faulty variant: without validator, the phase looked up is the context's
\* current phase
validate_exit_of_current_phase(ctx, f, phase) ==
  IF PHASE_VALIDATORS[phase] # None
  THEN can_exit(PHASE_VALIDATORS[phase], ctx, f)
  ELSE LET is_complete == has_completed_phase(ctx, ctx.current_phase)
       IN ValidationResult(is_complete,
                           IF is_complete THEN ScoreScale ELSE 0,
                           <<>>, << "No validator for this phase" >>, <<>>)

\* faulty variant: a phase without validator always passes
validate_exit_always_passes(ctx, f, phase) ==
  IF PHASE_VALIDATORS[phase] # None
  THEN can_exit(PHASE_VALIDATORS[phase], ctx, f)
  ELSE ValidationResult(TRUE, ScoreScale, <<>>,
                        << "No validator for this phase" >>, <<>>)

validate_exit(ctx, f, phase) ==
  IF PHASE_VALIDATORS[phase] # None
  THEN can_exit(PHASE_VALIDATORS[phase], ctx, f)
  ELSE LET is_complete == has_completed_phase(ctx, phase)
       IN ValidationResult(is_complete,
                           IF is_complete THEN ScoreScale ELSE 0,
                           <<>>, << "No validator for this phase" >>, <<>>)

PHASE_AGENTS ==
  [ p \in Phases |->
      CASE p = LITERATURE_REVIEW    -> "literature-reviewer"
        [] p = GAP_ANALYSIS         -> "gap-analyst"
        [] p = HYPOTHESIS_FORMATION -> "hypothesis-generator"
        [] p = EXPERIMENTAL_DESIGN  -> "experiment-designer"
        [] p = ANALYSIS             -> "data-analyst"
        [] p = INTERPRETATION       -> "quality-assurance"
        [] p = WRITING              -> "manuscript-writer"
        [] p = PUBLICATION          -> "quality-assurance"
        [] OTHER                    -> None ]

get_agent(phase) == PHASE_AGENTS[phase]

ENTRY_FAILED == "Entry requirements not met"

\* faulty variant: the phase is started in the context once its entry passes
execute_phase_starts_phase(state, ctx, f, phase, loaded) ==
  LET ph == IF phase = None THEN state ELSE phase
      entry_validation == validate_entry(ctx, f, ph)
      agent == get_agent(ph)
  IN IF ~ entry_validation.passed
     THEN [ state |-> state, ctx |-> ctx,
            ret |-> [ success |-> FALSE, phase |-> ph, error |-> ENTRY_FAILED,
                      validation |-> entry_validation ] ]
     ELSE [ state |-> state, ctx |-> start_phase(ctx, ph, agent),
            ret |-> [ success |-> TRUE, phase |-> ph, agent |-> agent,
                      message |-> "started", mode |-> ctx.mode ] ]

\* execute_phase: the state and context it leaves and the dictionary it
\* returns; loaded tells whether the agent's specification file could be read
execute_phase(state, ctx, f, phase, loaded) ==
  LET ph == IF phase = None THEN state ELSE phase
      entry_validation == validate_entry(ctx, f, ph)
      agent == get_agent(ph)
  IN [ state |-> state, ctx |-> ctx,
       ret |->
         IF ~ entry_validation.passed
         THEN [ success |-> FALSE, phase |-> ph, error |-> ENTRY_FAILED,
                validation |-> entry_validation ]
         ELSE IF agent = None
         THEN [ success |-> TRUE, phase |-> ph, agent |-> None,
                message |-> "Human interaction required",
                mode |-> ctx.mode ]
         ELSE IF ~ loaded
         THEN [ success |-> FALSE, phase |-> ph, agent |-> agent,
                error |-> "File not found", mode |-> ctx.mode ]
         ELSE [ success |-> TRUE, phase |-> ph, agent |-> agent,
                task_invocation |->
                  [ subagent_type |-> agent, ready |-> TRUE,
                    current_phase |-> state, params_phase |-> ph ],
                message |-> "Agent " \o agent
                              \o " ready for execution via Task tool",
                mode |-> ctx.mode ] ]

orchestrator_get_phase_outputs(phase) ==
  CASE phase = PROBLEM_FORMULATION  -> << PROBLEM_STATEMENT >>
    [] phase = LITERATURE_REVIEW    -> << SEARCH_RESULTS, INCLUDED_STUDIES >>
    [] phase = GAP_ANALYSIS         -> << "docs/gap_analysis.md" >>
    [] phase = HYPOTHESIS_FORMATION -> << "docs/hypotheses.md" >>
    [] phase = EXPERIMENTAL_DESIGN  -> << PROTOCOL, POWER_ANALYSIS, RANDOMIZATION >>
    [] OTHER                        -> << "output_" \o phase \o ".md" >>

VALIDATION_FAILED == "Current phase validation failed"
TRANSITION_FAILED == "State transition failed"

\* the three dictionaries advance_workflow returns
validation_failure(state, validation) ==
  [ success |-> FALSE, current_phase |-> state, error |-> VALIDATION_FAILED,
    validation |-> validation ]

advance_success(state, new_state, ctx) ==
  [ success |-> TRUE, from_phase |-> state, to_phase |-> new_state,
    progress |-> get_progress_percentage(ctx) ]

\* faulty variant: the transition failure reuses the validation error
transition_failure_same_error(state) ==
  [ success |-> FALSE, current_phase |-> state, error |-> VALIDATION_FAILED ]

transition_failure(state) ==
  [ success |-> FALSE, current_phase |-> state, error |-> TRANSITION_FAILED ]

\* faulty variant: completion is recorded before the validation is looked at
advance_workflow_records_first(state, ctx, f, bak, skip_irb) ==
  LET validation == validate_exit(ctx, f, state)
      completed == complete_phase(ctx, validation,
                                  orchestrator_get_phase_outputs(state))
      moved == progress_to_next(state, completed, skip_irb)
  IN IF ~ validation.passed
     THEN [ state |-> state, ctx |-> completed, backup |-> bak,
            ret |-> validation_failure(state, validation) ]
     ELSE [ state |-> moved.state, ctx |-> moved.ctx,
            backup |-> create_backup(completed),
            ret |-> IF moved.ok
                    THEN advance_success(state, moved.state, moved.ctx)
                    ELSE transition_failure(state) ]

\* faulty variant: the machine moves before the completion is recorded
advance_workflow_moves_first(state, ctx, f, bak, skip_irb) ==
  LET validation == validate_exit(ctx, f, state)
      moved == progress_to_next(state, ctx, skip_irb)
      completed == complete_phase(moved.ctx, validation,
                                  orchestrator_get_phase_outputs(state))
  IN IF ~ validation.passed
     THEN [ state |-> state, ctx |-> ctx, backup |-> bak,
            ret |-> validation_failure(state, validation) ]
     ELSE [ state |-> moved.state, ctx |-> completed,
            backup |-> create_backup(ctx),
            ret |-> IF moved.ok
                    THEN advance_success(state, moved.state, completed)
                    ELSE transition_failure(state) ]

\* advance_workflow: the state, context and backup it leaves, and what it returns
advance_workflow(state, ctx, f, bak, skip_irb) ==
  LET validation == validate_exit(ctx, f, state)
      completed == complete_phase(ctx, validation,
                                  orchestrator_get_phase_outputs(state))
      moved == progress_to_next(state, completed, skip_irb)
  IN IF ~ validation.passed
     THEN [ state |-> state, ctx |-> ctx, backup |-> bak,
            ret |-> validation_failure(state, validation) ]
     ELSE [ state |-> moved.state, ctx |-> moved.ctx,
            backup |-> create_backup(completed),
            ret |-> IF moved.ok
                    THEN advance_success(state, moved.state, moved.ctx)
                    ELSE transition_failure(state) ]

----------------------------------------------------------------------------
(* The inputs *)

\* the <<phase, agent>> arguments of start_phase
StartInputs ==
  { <<PROBLEM_FORMULATION, None>>, <<LITERATURE_REVIEW, None>>,
    <<LITERATURE_REVIEW, "literature-reviewer">>, <<GAP_ANALYSIS, None>> }

\* the results a caller hands to complete_phase
CallerResults ==
  { ValidationResult(TRUE, ScoreScale, <<>>, <<>>, <<>>),
    ValidationResult(FALSE, 0, <<>>, <<>>, << "not done" >>) }

CallerOutputs == { << "output.md" >> }

NoText == [ p \in Paths |-> {} ]

EmptyProject == [ files |-> {}, text |-> NoText, lines |-> 0 ]

\* a problem statement with a question mark and no FINER keyword
WeakProblem ==
  [ files |-> { PROBLEM_STATEMENT },
    text |-> [ NoText EXCEPT ![PROBLEM_STATEMENT] = { "?" } ],
    lines |-> 0 ]

\* a problem statement that satisfies the FINER gate
ProblemOnly ==
  [ WeakProblem EXCEPT
      !.text[PROBLEM_STATEMENT] = { "?", "practical", "impact", "gap" } ]

\* ... and the literature-review artifacts, five included studies
WithLiterature ==
  [ ProblemOnly EXCEPT
      !.files = @ \cup { SEARCH_RESULTS, SCREENED_ABSTRACTS, INCLUDED_STUDIES,
                         PRISMA_FLOW },
      !.lines = 6 ]

\* ... and the experimental-design artifacts
FullProject ==
  [ WithLiterature EXCEPT
      !.files = @ \cup { PROTOCOL, POWER_ANALYSIS, RANDOMIZATION },
      !.text[POWER_ANALYSIS] = { "power", "80%" },
      !.text[RANDOMIZATION] = { "seed" },
      !.text[PROTOCOL] = { "sex" } ]

ProjectLayouts == { EmptyProject, ProblemOnly, FullProject }

\* the targets a caller of go_back_to asks for on a new workflow
RevisionTargets == { PROBLEM_FORMULATION, LITERATURE_REVIEW, DATA_COLLECTION }

Bounded(ctx) ==
  /\ Len(ctx.phase_history) <= MaxHistory
  /\ Len(ctx.audit_trail) <= MaxAudit

----------------------------------------------------------------------------
(* The state machine of the program *)

\* create_orchestrator on a project directory
Init ==
  \E initial_hook \in BOOLEAN, f \in ProjectLayouts :
    /\ current_state = create_workflow(ASSISTANT, initial_hook).state
    /\ context = create_workflow(ASSISTANT, initial_hook).ctx
    /\ fs = f
    /\ saved = Nothing
    /\ backup = Nothing
    /\ result = [ op |-> "create_workflow" ]

StartPhase(phase, agent) ==
  /\ Bounded(start_phase(context, phase, agent))
  /\ context' = start_phase(context, phase, agent)
  /\ result' = [ op |-> "start_phase", phase |-> phase, agent |-> agent ]
  /\ UNCHANGED <<current_state, fs, saved, backup>>

CompletePhase(validation_result, outputs) ==
  /\ Bounded(complete_phase(context, validation_result, outputs))
  /\ context' = complete_phase(context, validation_result, outputs)
  /\ result' = [ op |-> "complete_phase",
                 validation_result |-> validation_result,
                 outputs |-> outputs ]
  /\ UNCHANGED <<current_state, fs, saved, backup>>

ProgressToNext(skip_irb) ==
  LET r == progress_to_next(current_state, context, skip_irb)
  IN /\ Bounded(r.ctx)
     /\ backup' = create_backup(context)
     /\ current_state' = r.state
     /\ context' = r.ctx
     /\ result' = [ op |-> "progress_to_next", skip_irb |-> skip_irb,
                    ret |-> r.ok ]
     /\ UNCHANGED <<fs, saved>>

GoBackTo(phase) ==
  LET r == go_back_to(current_state, context, phase)
  IN /\ Bounded(r.ctx)
     /\ current_state' = r.state
     /\ context' = r.ctx
     /\ result' = [ op |-> "go_back_to", phase |-> phase, ret |-> r.ok ]
     /\ UNCHANGED <<fs, saved, backup>>

AdvanceWorkflow(skip_irb) ==
  LET r == advance_workflow(current_state, context, fs, backup, skip_irb)
  IN /\ Bounded(r.ctx)
     /\ current_state' = r.state
     /\ context' = r.ctx
     /\ backup' = r.backup
     /\ result' = [ op |-> "advance_workflow", skip_irb |-> skip_irb,
                    dict |-> r.ret ]
     /\ UNCHANGED <<fs, saved>>

SaveState ==
  /\ context' = [ context EXCEPT !.current_phase = current_state ]
  /\ saved' = save(context')
  /\ result' = [ op |-> "save_state" ]
  /\ UNCHANGED <<current_state, fs, backup>>

Next ==
  \/ \E a \in StartInputs : StartPhase(a[1], a[2])
  \/ \E v \in CallerResults, o \in CallerOutputs : CompletePhase(v, o)
  \/ \E skip_irb \in BOOLEAN : ProgressToNext(skip_irb)
  \/ \E phase \in RevisionTargets : GoBackTo(phase)
  \/ \E skip_irb \in BOOLEAN : AdvanceWorkflow(skip_irb)
  \/ SaveState

Spec == Init /\ [][Next]_vars

----------------------------------------------------------------------------
(* A workflow resumed from a snapshot: load_state builds the context from the *)
(* file and ResearchWorkflow(context) points the machine at its phase.        *)

load_state(file, initial_hook) ==
  ResearchWorkflow_init(load(file), initial_hook)

InitResume ==
  \E phase \in Phases, initial_hook \in BOOLEAN :
    /\ current_state = load_state(save(WorkflowContext(phase)), initial_hook).state
    /\ context = load_state(save(WorkflowContext(phase)), initial_hook).ctx
    /\ fs = FullProject
    /\ saved = save(WorkflowContext(phase))
    /\ backup = Nothing
    /\ result = [ op |-> "load_state" ]

\* the caller records the phase the machine is in
StartCurrentPhase == StartPhase(current_state, None)

NextResume ==
  \/ StartCurrentPhase
  \/ \E v \in CallerResults, o \in CallerOutputs : CompletePhase(v, o)
  \/ \E skip_irb \in BOOLEAN : ProgressToNext(skip_irb)
  \/ \E phase \in Phases : GoBackTo(phase)
  \/ \E skip_irb \in BOOLEAN : AdvanceWorkflow(skip_irb)

SpecResume == InitResume /\ [][NextResume]_vars

----------------------------------------------------------------------------
(* A resumed workflow driven by progress_to_next and go_back_to alone *)

MovesBounded(ctx) == Len(ctx.audit_trail) <= 2 * MaxMoves + 1

MoveForward(skip_irb) ==
  /\ MovesBounded(progress_to_next(current_state, context, skip_irb).ctx)
  /\ ProgressToNext(skip_irb)

MoveBack(phase) ==
  /\ MovesBounded(go_back_to(current_state, context, phase).ctx)
  /\ GoBackTo(phase)

NextMoves ==
  \/ \E skip_irb \in BOOLEAN : MoveForward(skip_irb)
  \/ \E phase \in Phases : MoveBack(phase)

SpecMoves == InitResume /\ [][NextMoves]_vars

----------------------------------------------------------------------------
(* Persistence: a workflow in either mode is worked on, saved, and loaded     *)
(* again by a later process.                                                  *)

\* the <<phase, agent>> arguments of start_phase
PersistInputs == { <<LITERATURE_REVIEW, "literature-reviewer">> }

InitPersist ==
  \E initial_hook \in BOOLEAN, mode \in Mode :
    /\ current_state = create_workflow(mode, initial_hook).state
    /\ context = create_workflow(mode, initial_hook).ctx
    /\ fs = ProblemOnly
    /\ saved = Nothing
    /\ backup = Nothing
    /\ result = [ op |-> "create_workflow" ]

\* ResearchWorkflow.load_state on the file that save_state wrote: the loaded
\* workflow takes the place of the one in memory
LoadState ==
  /\ saved # Nothing
  /\ \E initial_hook \in BOOLEAN :
       /\ Bounded(load_state(saved, initial_hook).ctx)
       /\ current_state' = load_state(saved, initial_hook).state
       /\ context' = load_state(saved, initial_hook).ctx
  /\ result' = [ op |-> "load_state" ]
  /\ UNCHANGED <<fs, saved, backup>>

NextPersist ==
  \/ \E a \in PersistInputs : StartPhase(a[1], a[2])
  \/ \E v \in { r \in CallerResults : r.passed }, o \in CallerOutputs :
        CompletePhase(v, o)
  \/ ProgressToNext(FALSE)
  \/ SaveState
  \/ LoadState

SpecPersist == InitPersist /\ [][NextPersist]_vars

----------------------------------------------------------------------------
(* The gates: the orchestrator is asked to validate and to execute phases     *)
(* while the caller records phases in the context.                            *)

\* the <<phase, agent>> arguments of start_phase
GateInputs == { <<HYPOTHESIS_FORMATION, "hypothesis-generator">> }

InitGates ==
  \E initial_hook \in BOOLEAN :
    /\ current_state = create_workflow(ASSISTANT, initial_hook).state
    /\ context = create_workflow(ASSISTANT, initial_hook).ctx
    /\ fs = ProblemOnly
    /\ saved = Nothing
    /\ backup = Nothing
    /\ result = [ op |-> "create_workflow" ]

ValidateEntry(phase) ==
  /\ result' = [ op |-> "validate_entry", phase |-> phase,
                 validation |-> validate_entry(context, fs, phase) ]
  /\ UNCHANGED <<current_state, context, fs, saved, backup>>

ValidateExit(phase) ==
  /\ result' = [ op |-> "validate_exit", phase |-> phase,
                 validation |-> validate_exit(context, fs, phase) ]
  /\ UNCHANGED <<current_state, context, fs, saved, backup>>

ExecutePhase(phase, loaded) ==
  LET r == execute_phase(current_state, context, fs, phase, loaded)
  IN /\ Bounded(r.ctx)
     /\ current_state' = r.state
     /\ context' = r.ctx
     /\ result' = [ op |-> "execute_phase", phase |-> phase, out |-> r.ret ]
     /\ UNCHANGED <<fs, saved, backup>>

NextGates ==
  \/ \E a \in GateInputs : StartPhase(a[1], a[2])
  \/ \E v \in CallerResults, o \in CallerOutputs : CompletePhase(v, o)
  \/ ProgressToNext(FALSE)
  \/ \E phase \in Phases : ValidateEntry(phase)
  \/ \E phase \in Phases : ValidateExit(phase)
  \/ \E phase \in Phases \cup { None }, loaded \in BOOLEAN :
        ExecutePhase(phase, loaded)

SpecGates == InitGates /\ [][NextGates]_vars

----------------------------------------------------------------------------
(* The exit gates on project directories: the three validators are run on     *)
(* projects that hold any part of a phase's artifacts.                        *)

\* words of a problem statement: a question mark and keywords of the five
\* FINER lists ("practical" is in the feasible and in the relevant list)
StatementWords ==
  { "?", "feasible", "practical", "impact", "gap", "consent", "clinical" }

\* a project with or without a problem statement of some of these words
StatementLayouts ==
  { EmptyProject }
    \cup { [ files |-> { PROBLEM_STATEMENT },
             text |-> [ NoText EXCEPT ![PROBLEM_STATEMENT] = words ],
             lines |-> 0 ] : words \in SUBSET StatementWords }

\* projects with some of the literature-review artifacts; the included-studies
\* file, where there is one, has up to MaxLines lines
LiteratureLayouts ==
  { [ files |-> files, text |-> NoText,
      lines |-> IF INCLUDED_STUDIES \in files THEN lines ELSE 0 ] :
    files \in SUBSET { SEARCH_RESULTS, SCREENED_ABSTRACTS, INCLUDED_STUDIES,
                       PRISMA_FLOW, RISK_OF_BIAS },
    lines \in 0..MaxLines }

\* projects with some of the experimental-design artifacts, of any wording
DesignLayouts ==
  { [ files |-> files,
      text |-> [ NoText EXCEPT
                   ![POWER_ANALYSIS] =
                      IF POWER_ANALYSIS \in files THEN power ELSE {},
                   ![RANDOMIZATION] =
                      IF RANDOMIZATION \in files THEN code ELSE {},
                   ![PROTOCOL] = IF PROTOCOL \in files THEN protocol ELSE {} ],
      lines |-> 0 ] :
    files \in SUBSET { PROTOCOL, POWER_ANALYSIS, RANDOMIZATION, PREREGISTRATION },
    power \in SUBSET { "power", "0.8", "80%" },
    code \in SUBSET { "seed" },
    protocol \in SUBSET { "sex", "sabv" } }

FileLayouts == StatementLayouts \cup LiteratureLayouts \cup DesignLayouts

InitFiles ==
  \E initial_hook \in BOOLEAN, f \in FileLayouts :
    /\ current_state = create_workflow(ASSISTANT, initial_hook).state
    /\ context = create_workflow(ASSISTANT, initial_hook).ctx
    /\ fs = f
    /\ saved = Nothing
    /\ backup = Nothing
    /\ result = [ op |-> "create_workflow" ]

NextFiles ==
  \E phase \in { PROBLEM_FORMULATION, LITERATURE_REVIEW, EXPERIMENTAL_DESIGN } :
    ValidateExit(phase)

SpecFiles == InitFiles /\ [][NextFiles]_vars

----------------------------------------------------------------------------
(* Both gates on project directories while the caller records phases: the     *)
(* phases with a validator and one without.                                   *)

GatedPhases ==
  { PROBLEM_FORMULATION, LITERATURE_REVIEW, HYPOTHESIS_FORMATION,
    EXPERIMENTAL_DESIGN }

NextValidators ==
  \/ \E a \in GateInputs : StartPhase(a[1], a[2])
  \/ \E v \in { r \in CallerResults : r.passed }, o \in CallerOutputs :
        CompletePhase(v, o)
  \/ \E phase \in GatedPhases : ValidateEntry(phase)
  \/ \E phase \in GatedPhases : ValidateExit(phase)

SpecValidators == InitFiles /\ [][NextValidators]_vars

----------------------------------------------------------------------------
(* The end-to-end run: a new workflow on a project whose problem statement    *)
(* satisfies the FINER gate, driven by advance_workflow(skip_irb=True) alone. *)

\* the project holds every artifact the three gates require; the optional
\* artifacts, the number of included studies and the wording vary
RunLayouts ==
  { [ files |-> FullProject.files \cup optional,
      text |-> [ FullProject.text EXCEPT ![PROBLEM_STATEMENT] = statement,
                                         ![PROTOCOL] = protocol ],
      lines |-> lines ] :
    optional \in SUBSET { RISK_OF_BIAS, PREREGISTRATION },
    statement \in { { "?", "practical", "impact", "gap" },
                    { "research question", "question", "budget", "impact",
                      "novel", "clinical", "consent" } },
    protocol \in { {}, { "sex" } },
    lines \in { 6, 11 } }

\* a run to Publication appends three audit entries per advance
RunAudit == 3 * Len(ResearchPhase) + 2

InitRun ==
  \E initial_hook \in BOOLEAN, f \in RunLayouts :
    /\ FINER_can_exit(create_workflow(ASSISTANT, initial_hook).ctx, f).passed
    /\ current_state = create_workflow(ASSISTANT, initial_hook).state
    /\ context = create_workflow(ASSISTANT, initial_hook).ctx
    /\ fs = f
    /\ saved = Nothing
    /\ backup = Nothing
    /\ result = [ op |-> "create_workflow" ]

AdvanceSkippingIrb ==
  LET r == advance_workflow(current_state, context, fs, backup, TRUE)
  IN /\ Len(r.ctx.audit_trail) <= RunAudit
     /\ current_state' = r.state
     /\ context' = r.ctx
     /\ backup' = r.backup
     /\ result' = [ op |-> "advance_workflow", skip_irb |-> TRUE,
                    dict |-> r.ret ]
     /\ UNCHANGED <<fs, saved>>

NextRun == AdvanceSkippingIrb

\* the caller keeps calling advance_workflow
SpecRun == InitRun /\ [][NextRun]_vars /\ WF_vars(AdvanceSkippingIrb)

----------------------------------------------------------------------------
(* Properties of the state machine *)

\* the forward graph, as the specification draws it
ForwardGraph ==
  { <<PROBLEM_FORMULATION, LITERATURE_REVIEW>>,
    <<LITERATURE_REVIEW, GAP_ANALYSIS>>,
    <<GAP_ANALYSIS, HYPOTHESIS_FORMATION>>,
    <<HYPOTHESIS_FORMATION, EXPERIMENTAL_DESIGN>>,
    <<EXPERIMENTAL_DESIGN, IRB_APPROVAL>>,
    <<EXPERIMENTAL_DESIGN, DATA_COLLECTION>>,
    <<IRB_APPROVAL, DATA_COLLECTION>>,
    <<DATA_COLLECTION, ANALYSIS>>,
    <<ANALYSIS, INTERPRETATION>>,
    <<INTERPRETATION, WRITING>>,
    <<WRITING, PUBLICATION>> }

\* the sanctioned revision edges <<source, target>>, as the specification lists them
RevisionEdges ==
  { <<GAP_ANALYSIS, LITERATURE_REVIEW>>,
    <<HYPOTHESIS_FORMATION, LITERATURE_REVIEW>>,
    <<EXPERIMENTAL_DESIGN, HYPOTHESIS_FORMATION>>,
    <<ANALYSIS, DATA_COLLECTION>>,
    <<LITERATURE_REVIEW, PROBLEM_FORMULATION>>,
    <<GAP_ANALYSIS, PROBLEM_FORMULATION>>,
    <<HYPOTHESIS_FORMATION, PROBLEM_FORMULATION>>,
    <<EXPERIMENTAL_DESIGN, PROBLEM_FORMULATION>> }

\* the step is a call of the operation op (result' is what the call returned)
Called(op) == result'.op = op

LastAudit(ctx, k) == ctx.audit_trail[Len(ctx.audit_trail) + 1 - k]

\* the audit trail ends with the exit/enter pair of the transition src -> tgt
EndsWithTransition(ctx, src, tgt) ==
  /\ Len(ctx.audit_trail) >= 2
  /\ LastAudit(ctx, 2).action = "state_exited"
  /\ LastAudit(ctx, 2).details[1] = src
  /\ LastAudit(ctx, 1).action = "state_entered"
  /\ LastAudit(ctx, 1).details[1] = tgt

\* C1: from each of the ten states other than Publication, progress_to_next
\* returns True and moves the machine along an edge of the forward graph, and
\* to no other state.
C1_ProgressFollowsForwardGraph ==
  [][ (Called("progress_to_next") /\ current_state # PUBLICATION)
        => /\ result'.ret = TRUE
           /\ <<current_state, current_state'>> \in ForwardGraph ]_vars

C1_Witness ==
  /\ result.op = "progress_to_next"
  /\ result.ret = TRUE
  /\ current_state = PUBLICATION
  /\ EndsWithTransition(context, WRITING, PUBLICATION)

\* C2: at ExperimentalDesign, progress_to_next(skip_irb=True) lands on
\* DataCollection and progress_to_next(skip_irb=False) on IRBApproval; both
\* return True.
C2_SkipIrbBranch ==
  [][ (Called("progress_to_next") /\ current_state = EXPERIMENTAL_DESIGN)
        => /\ result'.ret = TRUE
           /\ result'.skip_irb => current_state' = DATA_COLLECTION
           /\ ~ result'.skip_irb => current_state' = IRB_APPROVAL ]_vars

C2_Witness ==
  /\ result.op = "progress_to_next"
  /\ result.skip_irb = TRUE
  /\ result.ret = TRUE
  /\ current_state = DATA_COLLECTION
  /\ EndsWithTransition(context, EXPERIMENTAL_DESIGN, DATA_COLLECTION)

\* C3: at Publication, progress_to_next returns False, leaves the current
\* state and current_phase as they are and appends nothing to the audit trail.
C3_PublicationIsTerminal ==
  [][ (Called("progress_to_next") /\ current_state = PUBLICATION)
        => /\ result'.ret = FALSE
           /\ current_state' = current_state
           /\ context'.current_phase = context.current_phase
           /\ context'.audit_trail = context.audit_trail ]_vars

C3_Witness ==
  /\ result.op = "progress_to_next"
  /\ result.ret = FALSE
  /\ current_state = PUBLICATION

\* C4: go_back_to(target) from a state that is not a sanctioned source of the
\* target returns False and leaves the current state and the audit trail as
\* they are.
C4_IllegalRevisionRejected ==
  [][ (Called("go_back_to")
         /\ <<current_state, result'.phase>> \notin RevisionEdges)
        => /\ result'.ret = FALSE
           /\ current_state' = current_state
           /\ context'.audit_trail = context.audit_trail ]_vars

C4_Witness ==
  /\ result.op = "go_back_to"
  /\ result.phase = DATA_COLLECTION
  /\ result.ret = FALSE
  /\ current_state = LITERATURE_REVIEW

\* C5: go_back_to(target) returns True exactly for the eight sanctioned
\* pairs <<source, target>>, and then the target is the current state.
C5_SanctionedRevisions ==
  [][ Called("go_back_to")
        => /\ result'.ret = TRUE
                <=> <<current_state, result'.phase>> \in RevisionEdges
           /\ result'.ret = TRUE => current_state' = result'.phase ]_vars

C5_Witness ==
  /\ result.op = "go_back_to"
  /\ result.ret = TRUE
  /\ current_state = LITERATURE_REVIEW
  /\ EndsWithTransition(context, HYPOTHESIS_FORMATION, LITERATURE_REVIEW)

----------------------------------------------------------------------------
(* Properties of the orchestrator and the context *)

\* C6: when the exit validation of the current phase does not pass,
\* advance_workflow returns success=False with the ValidationResult and
\* changes neither the current state nor anything in the context.
C6_FailedValidationMutatesNothing ==
  [][ (Called("advance_workflow")
         /\ ~ validate_exit(context, fs, current_state).passed)
        => /\ result'.dict.success = FALSE
           /\ "validation" \in DOMAIN result'.dict
           /\ result'.dict.validation = validate_exit(context, fs, current_state)
           /\ current_state' = current_state
           /\ context' = context ]_vars

C6_Witness ==
  /\ result.op = "advance_workflow"
  /\ result.dict.success = FALSE
  /\ result.dict.error = VALIDATION_FAILED
  /\ ~ result.dict.validation.passed
  /\ result.dict.validation.blocking_issues # <<>>

\* a PhaseRecord of the phase was closed with the score of the validation
\* that is archived under the phase's tag
CompletionRecorded(ctx, phase) ==
  /\ has_completed_phase(ctx, phase)
  /\ phase \in DOMAIN ctx.validation_results
  /\ \E i \in 1..Len(ctx.phase_history) :
       /\ ctx.phase_history[i].phase = phase
       /\ ctx.phase_history[i].exited
       /\ ctx.phase_history[i].validation_score
            = Some(ctx.validation_results[phase].score)

\* C7: after advance_workflow has returned success=True with from_phase = P,
\* the completion of P is recorded in the context.
C7_AdvanceRecordsCompletion ==
  (result.op = "advance_workflow" /\ result.dict.success)
    => CompletionRecorded(context, result.dict.from_phase)

\* C9: advance_workflow at Publication with a passing exit validation returns
\* success=False with the transition-failure descriptor, which is not the
\* validation-failure one, and the machine stays at Publication.
C9_TransitionFailureIsDistinct ==
  [][ (Called("advance_workflow") /\ current_state = PUBLICATION
         /\ validate_exit(context, fs, PUBLICATION).passed)
        => /\ result'.dict.success = FALSE
           /\ result'.dict.error = TRANSITION_FAILED
           /\ result'.dict.error # VALIDATION_FAILED
           /\ "validation" \notin DOMAIN result'.dict
           /\ current_state' = PUBLICATION ]_vars

C9_Witness ==
  /\ result.op = "advance_workflow"
  /\ result.dict.success = FALSE
  /\ result.dict.error = TRANSITION_FAILED
  /\ current_state = PUBLICATION
  /\ has_completed_phase(context, PUBLICATION)

\* current_phase is the phase of the most recently started PhaseRecord
CurrentIsLastStarted(ctx) ==
  /\ ctx.phase_history # <<>>
  /\ ctx.current_phase = ctx.phase_history[Len(ctx.phase_history)].phase

\* C10 as stated: in every state reachable after create_workflow,
\* current_phase is the phase of the last entry of phase_history.
C10_CurrentPhaseIsLastStarted == CurrentIsLastStarted(context)

\* C10 amended: it holds after create_workflow, every operation other than
\* save_state keeps it, and save_state sets current_phase to the current state
\* of the machine.
C10_ExceptSaveState ==
  /\ CurrentIsLastStarted(context)
  /\ [][ /\ (~ Called("save_state") /\ CurrentIsLastStarted(context))
              => CurrentIsLastStarted(context')
         /\ Called("save_state")
              => context'.current_phase = current_state ]_vars

C10_Witness ==
  /\ result.op = "advance_workflow"
  /\ result.dict.success
  /\ current_state # context.current_phase
  /\ CurrentIsLastStarted(context)

\* C8: a new workflow whose problem statement satisfies the FINER gate reaches
\* Publication when advance_workflow(skip_irb=True) is called repeatedly.
C8_RunReachesPublication == <>(current_state = PUBLICATION)

----------------------------------------------------------------------------
(* Properties of the audit trail and of the progress figure *)

\* C11: a call of start_phase or complete_phase appends exactly one audit
\* entry, a successful transition of the state machine appends exactly two (a
\* state_exited and a state_entered entry), and no operation removes or
\* rewrites an entry that is already there.
C11_AuditTrailOnlyGrows ==
  [][ /\ (Called("start_phase") \/ Called("complete_phase"))
           => Len(context'.audit_trail) = Len(context.audit_trail) + 1
      /\ ((Called("progress_to_next") \/ Called("go_back_to")) /\ result'.ret)
           => /\ Len(context'.audit_trail) = Len(context.audit_trail) + 2
              /\ LastAudit(context', 2).action = "state_exited"
              /\ LastAudit(context', 1).action = "state_entered"
      /\ (Called("advance_workflow") /\ result'.dict.success)
           => /\ Len(context'.audit_trail) = Len(context.audit_trail) + 3
              /\ LastAudit(context', 3).action = "phase_completed"
              /\ LastAudit(context', 2).action = "state_exited"
              /\ LastAudit(context', 1).action = "state_entered"
      /\ Len(context'.audit_trail) >= Len(context.audit_trail)
      /\ SubSeq(context'.audit_trail, 1, Len(context.audit_trail))
           = context.audit_trail ]_vars

C11_Witness ==
  /\ result.op = "go_back_to"
  /\ result.ret = TRUE
  /\ Len(context.audit_trail) >= 5
  /\ EndsWithTransition(context, LITERATURE_REVIEW, PROBLEM_FORMULATION)
  /\ \E i \in 1..Len(context.audit_trail) :
        context.audit_trail[i].action = "phase_started"

\* the phases that have a closed record in the history
CompletedPhases(ctx) ==
  { ctx.phase_history[i].phase :
      i \in { j \in 1..Len(ctx.phase_history) : ctx.phase_history[j].exited } }

\* the progress figure is 100 * (number of completed phases) / 11
IsCompletedShare(ctx) ==
  get_progress_percentage(ctx).num * 11
    = 100 * Cardinality(CompletedPhases(ctx)) * get_progress_percentage(ctx).den

\* C12: get_progress_percentage is 100 * (number of phases with a completed
\* record) / 11 in every state, is 0 for a new workflow, and does not decrease
\* over a successful advance_workflow.
C12_ProgressIsCompletedShare ==
  /\ get_progress_percentage(context).num = 0
  /\ IsCompletedShare(context)
  /\ [][ /\ IsCompletedShare(context')
         /\ (Called("advance_workflow") /\ result'.dict.success)
              => get_progress_percentage(context').num
                   * get_progress_percentage(context).den
                 >= get_progress_percentage(context).num
                      * get_progress_percentage(context').den ]_vars

C12_Witness ==
  /\ result.op = "advance_workflow"
  /\ result.dict.success
  /\ get_progress_percentage(context).num = 100
  /\ Cardinality(CompletedPhases(context)) = 1

----------------------------------------------------------------------------
(* Properties of serialization and persistence *)

C14_SaveLoadRoundTrip ==
  [][ (result.op = "save_state" /\ Called("load_state"))
        => /\ current_state' = current_state
           /\ context'.current_phase = context.current_phase
           /\ context'.phase_history = context.phase_history
           /\ context'.validation_results = context.validation_results
           /\ context'.audit_trail = context.audit_trail ]_vars

----------------------------------------------------------------------------
(* Properties of the gates *)

\* C15: for a phase without validator, validate_entry passes with score 1.0
\* whatever the workflow has done, and validate_exit passes exactly when the
\* phase has a completed record, with a warning about the missing validator.
C15_NoValidatorDefaults ==
  /\ (result.op = "validate_entry" /\ PHASE_VALIDATORS[result.phase] = None)
       => /\ result.validation.passed = TRUE
          /\ result.validation.score = ScoreScale
  /\ (result.op = "validate_exit" /\ PHASE_VALIDATORS[result.phase] = None)
       => /\ result.validation.passed
                <=> result.phase \in CompletedPhases(context)
          /\ result.validation.warnings # <<>>
          /\ \E i \in 1..Len(result.validation.warnings) :
                result.validation.warnings[i] = "No validator for this phase"

C15_Witness ==
  /\ result.op = "validate_exit"
  /\ result.phase = HYPOTHESIS_FORMATION
  /\ result.validation.passed
  /\ result.validation.warnings # <<>>
  /\ has_completed_phase(context, HYPOTHESIS_FORMATION)

\* C16: execute_phase changes neither the current state nor the context,
\* whichever phase it is given and whether the entry validation passes or
\* not; when the entry validation fails it returns success=False with the
\* validation and without an agent.
C16_ExecutePhaseReadOnly ==
  [][ Called("execute_phase")
        => /\ current_state' = current_state
           /\ context' = context
           /\ LET ph == IF result'.phase = None THEN current_state
                        ELSE result'.phase
                  entry == validate_entry(context, fs, ph)
              IN ~ entry.passed
                   => /\ result'.out.success = FALSE
                      /\ "validation" \in DOMAIN result'.out
                      /\ result'.out.validation = entry
                      /\ "agent" \notin DOMAIN result'.out
                      /\ "task_invocation" \notin DOMAIN result'.out ]_vars

C16_Witness ==
  /\ result.op = "execute_phase"
  /\ result.phase = EXPERIMENTAL_DESIGN
  /\ result.out.success = FALSE
  /\ result.out.error = ENTRY_FAILED
  /\ result.out.validation.blocking_issues # <<>>
  /\ has_completed_phase(context, PROBLEM_FORMULATION)
  /\ Len(context.phase_history) = 2

\* C17: the entry gate of LiteratureReview passes exactly when
\* ProblemFormulation has a completed record, that of ExperimentalDesign
\* exactly when HypothesisFormation has one; a gate that does not pass has
\* score 0 and a blocking issue.
C17_EntryNeedsPrerequisite ==
  /\ (result.op = "validate_entry" /\ result.phase = LITERATURE_REVIEW)
       => (result.validation.passed
             <=> PROBLEM_FORMULATION \in CompletedPhases(context))
  /\ (result.op = "validate_entry" /\ result.phase = EXPERIMENTAL_DESIGN)
       => (result.validation.passed
             <=> HYPOTHESIS_FORMATION \in CompletedPhases(context))
  /\ (result.op = "validate_entry"
        /\ result.phase \in { LITERATURE_REVIEW, EXPERIMENTAL_DESIGN }
        /\ ~ result.validation.passed)
       => /\ result.validation.score = 0
          /\ result.validation.blocking_issues # <<>>

C17_Witness ==
  /\ result.op = "validate_entry"
  /\ result.phase = LITERATURE_REVIEW
  /\ result.validation.passed
  /\ PROBLEM_FORMULATION \in CompletedPhases(context)
  /\ HYPOTHESIS_FORMATION \notin CompletedPhases(context)

----------------------------------------------------------------------------
(* Properties of the exit gates *)

PrismaFour ==
  { SEARCH_RESULTS, SCREENED_ABSTRACTS, INCLUDED_STUDIES, PRISMA_FLOW }

\* the rows of the included-studies file: its lines without the header
IncludedRows(f) == IF f.lines > 0 THEN f.lines - 1 ELSE 0

\* C18: the exit gate of LiteratureReview passes exactly when the four
\* required files exist (taking any one away makes it fail; the number of
\* included studies and the risk-of-bias file do not matter); with the four
\* files and fewer than 10 rows it passes with a warning that gives the number
\* of rows.
C18_PrismaExitNeedsFourFiles ==
  (result.op = "validate_exit" /\ result.phase = LITERATURE_REVIEW)
    => /\ result.validation.passed <=> PrismaFour \subseteq fs.files
       /\ PrismaFour \subseteq fs.files
            => \A p \in PrismaFour :
                  ~ PRISMA_can_exit(context,
                                    [ fs EXCEPT !.files = @ \ { p } ]).passed
       /\ (PrismaFour \subseteq fs.files /\ IncludedRows(fs) < 10)
            => /\ result.validation.passed
               /\ \E i \in 1..Len(result.validation.warnings) :
                     result.validation.warnings[i]
                       = "Only " \o ToString(IncludedRows(fs))
                           \o " included studies (recommend >=10)"

C18_Witness ==
  /\ result.op = "validate_exit"
  /\ result.phase = LITERATURE_REVIEW
  /\ result.validation.passed
  /\ IncludedRows(fs) = 5
  /\ RISK_OF_BIAS \notin fs.files
  /\ Len(result.validation.warnings) = 2

NihThree == { PROTOCOL, POWER_ANALYSIS, RANDOMIZATION }

\* the power analysis names power together with 0.8 or 80%
PowerStated(f) ==
  /\ "power" \in f.text[POWER_ANALYSIS]
  /\ { "0.8", "80%" } \cap f.text[POWER_ANALYSIS] # {}

SeedStated(f) == "seed" \in f.text[RANDOMIZATION]

FinerKeywords ==
  [ feasible |-> feasible_keywords, interesting |-> interesting_keywords,
    novel |-> novel_keywords, ethical |-> ethical_keywords,
    relevant |-> relevant_keywords ]

\* the FINER categories of which the text contains a keyword
Hits(text) == { c \in DOMAIN FinerKeywords : FinerKeywords[c] \cap text # {} }

\* the exit gate of ProblemFormulation was run on a problem statement with a
\* question mark
FinerRunOnQuestion ==
  /\ result.op = "validate_exit"
  /\ result.phase = PROBLEM_FORMULATION
  /\ PROBLEM_STATEMENT \in fs.files
  /\ "?" \in fs.text[PROBLEM_STATEMENT]

\* C20 as stated: on a problem statement with a question mark the gate passes
\* when exactly 4 of the 5 categories have keyword hits and fails when only 3
\* have, whichever they are.
C20_FourOfFiveCategories ==
  FinerRunOnQuestion
    => /\ Cardinality(Hits(fs.text[PROBLEM_STATEMENT])) = 4
            => result.validation.passed
       /\ Cardinality(Hits(fs.text[PROBLEM_STATEMENT])) = 3
            => ~ result.validation.passed

\* C20 amended: the ethical category counts as addressed with or without a
\* keyword hit, so the gate passes exactly when at least 3 of the other four
\* categories have keyword hits: hits in exactly 4 categories pass, hits in 3
\* categories pass when ethical is not one of them and fail when it is.
C20_EthicalAlwaysCounts ==
  FinerRunOnQuestion
    => /\ result.validation.passed
            <=> Cardinality(Hits(fs.text[PROBLEM_STATEMENT]) \ { "ethical" }) >= 3
       /\ Cardinality(Hits(fs.text[PROBLEM_STATEMENT])) = 4
            => result.validation.passed
       /\ ( /\ Cardinality(Hits(fs.text[PROBLEM_STATEMENT])) = 3
            /\ "ethical" \in Hits(fs.text[PROBLEM_STATEMENT]) )
            => ~ result.validation.passed

C20_Witness ==
  /\ FinerRunOnQuestion
  /\ Hits(fs.text[PROBLEM_STATEMENT]) = { "feasible", "interesting", "novel" }
  /\ result.validation.passed

----------------------------------------------------------------------------
(* Properties of the context operations and of the queries *)

\* C24: complete_phase on a context without any PhaseRecord creates and
\* changes no record, stores the validation result under the tag of the
\* current phase and appends exactly one phase_completed audit entry.
C24_CompleteWithoutRecord ==
  [][ (Called("complete_phase") /\ context.phase_history = <<>>)
        => /\ context'.phase_history = <<>>
           /\ context.current_phase \in DOMAIN context'.validation_results
           /\ context'.validation_results[context.current_phase]
                = result'.validation_result
           /\ \A p \in DOMAIN context.validation_results \ { context.current_phase } :
                 /\ p \in DOMAIN context'.validation_results
                 /\ context'.validation_results[p] = context.validation_results[p]
           /\ Len(context'.audit_trail) = Len(context.audit_trail) + 1
           /\ LastAudit(context', 1).action = "phase_completed"
           /\ context'.current_phase = context.current_phase ]_vars

C24_Witness ==
  /\ result.op = "complete_phase"
  /\ context.phase_history = <<>>
  /\ context.current_phase = DATA_COLLECTION
  /\ DATA_COLLECTION \in DOMAIN context.validation_results
  /\ context.validation_results[DATA_COLLECTION] = result.validation_result
  /\ LastAudit(context, 1).action = "phase_completed"

\* C25: can_progress is False at Publication; at any other state it is True
\* exactly when the history has a completed record of the phase of the
\* machine's current state.
C25_CanProgress ==
  /\ current_state = PUBLICATION => can_progress(current_state, context) = FALSE
  /\ current_state # PUBLICATION
       => (can_progress(current_state, context)
             <=> current_state \in CompletedPhases(context))

C25_Witness ==
  /\ current_state = ANALYSIS
  /\ CompletedPhases(context) = { ANALYSIS }
  /\ can_progress(current_state, context) = TRUE
  /\ result.op = "complete_phase"
  /\ EndsWithTransition([ context EXCEPT !.audit_trail = SubSeq(@, 1, Len(@) - 2) ],
                        DATA_COLLECTION, ANALYSIS)

\* C26: phase_history is append-only: start_phase adds one open record of
\* its phase at the end, also for a phase that was entered before, and leaves
\* the records before it as they are; complete_phase changes the last record
\* only; no operation removes or reorders records.
C26_HistoryAppendOnly ==
  [][ /\ Called("start_phase")
           => /\ Len(context'.phase_history) = Len(context.phase_history) + 1
              /\ SubSeq(context'.phase_history, 1, Len(context.phase_history))
                   = context.phase_history
              /\ context'.phase_history[Len(context'.phase_history)].phase
                   = result'.phase
              /\ ~ context'.phase_history[Len(context'.phase_history)].exited
      /\ Called("complete_phase")
           => Len(context'.phase_history) = Len(context.phase_history)
      /\ (~ Called("complete_phase") /\ ~ Called("advance_workflow"))
           => SubSeq(context'.phase_history, 1, Len(context.phase_history))
                = context.phase_history
      /\ Len(context'.phase_history) >= Len(context.phase_history)
      /\ \A i \in 1..Len(context.phase_history) :
            /\ context'.phase_history[i].phase = context.phase_history[i].phase
            /\ i < Len(context.phase_history)
                 => context'.phase_history[i] = context.phase_history[i] ]_vars

C26_Witness ==
  /\ result.op = "start_phase"
  /\ result.phase = PROBLEM_FORMULATION
  /\ Len(context.phase_history) = 2
  /\ context.phase_history[1].phase = PROBLEM_FORMULATION
  /\ context.phase_history[1].exited
  /\ context.phase_history[2].phase = PROBLEM_FORMULATION
  /\ ~ context.phase_history[2].exited

\* C28: a call of progress_to_next or go_back_to, accepted or rejected, leaves
\* current_phase, phase_history and validation_results of the context as they
\* are and starts no phase: what it appends to the audit trail are state_exited
\* and state_entered entries only.
C28_TransitionFrame ==
  [][ (Called("progress_to_next") \/ Called("go_back_to"))
        => /\ context'.current_phase = context.current_phase
           /\ context'.phase_history = context.phase_history
           /\ context'.validation_results = context.validation_results
           /\ \A i \in (Len(context.audit_trail) + 1)..Len(context'.audit_trail) :
                 context'.audit_trail[i].action
                   \in { "state_exited", "state_entered" }
           /\ ~ result'.ret => /\ context' = context
                               /\ current_state' = current_state ]_vars

C28_Witness ==
  /\ result.op = "progress_to_next"
  /\ result.ret = TRUE
  /\ current_state = LITERATURE_REVIEW
  /\ context.current_phase = PROBLEM_FORMULATION
  /\ Len(context.phase_history) = 1
  /\ DOMAIN context.validation_results = { PROBLEM_FORMULATION }

\* C30: a successful advance_workflow validates the exit of the current phase
\* first and then appends, in this order, the phase_completed entry, the
\* state_exited entry of the source state and the state_entered entry of the
\* target state; an advance whose exit validation fails appends no entry.
C30_AdvanceOrder ==
  [][ Called("advance_workflow")
        => LET validation == validate_exit(context, fs, current_state)
               n == Len(context.audit_trail)
           IN /\ result'.dict.success
                   => /\ validation.passed
                      /\ Len(context'.audit_trail) = n + 3
                      /\ SubSeq(context'.audit_trail, 1, n) = context.audit_trail
                      /\ context'.audit_trail[n + 1].action = "phase_completed"
                      /\ context'.audit_trail[n + 1].details[2] = validation.score
                      /\ context'.audit_trail[n + 1].details[3] = TRUE
                      /\ context'.audit_trail[n + 2].action = "state_exited"
                      /\ context'.audit_trail[n + 2].details[1] = current_state
                      /\ context'.audit_trail[n + 3].action = "state_entered"
                      /\ context'.audit_trail[n + 3].details[1] = current_state'
              /\ ~ validation.passed
                   => context'.audit_trail = context.audit_trail ]_vars

C30_Witness ==
  /\ result.op = "advance_workflow"
  /\ result.dict.success
  /\ result.dict.to_phase = LITERATURE_REVIEW
  /\ LastAudit(context, 3).action = "phase_completed"
  /\ LastAudit(context, 3).details[3] = TRUE
  /\ EndsWithTransition(context, PROBLEM_FORMULATION, LITERATURE_REVIEW)

PhaseIndex(phase) ==
  CHOOSE i \in 1..Len(ResearchPhase) : ResearchPhase[i] = phase

Following(phase) ==
  IF phase = PUBLICATION THEN None ELSE ResearchPhase[PhaseIndex(phase) + 1]

\* C27: after a successful progress_to_next or go_back_to, get_next_phase
\* returns the phase that follows the phase the machine is in, in the fixed
\* linear order, and None when the machine is at publication.
C27_NextFollowsCurrent ==
  (result.op \in { "progress_to_next", "go_back_to" } /\ result.ret = TRUE)
    => get_next_phase(context) = Following(current_state)

EarlyPhases ==
  { PROBLEM_FORMULATION, LITERATURE_REVIEW, GAP_ANALYSIS,
    HYPOTHESIS_FORMATION, EXPERIMENTAL_DESIGN }

\* C29: once the machine is at IRB approval, data collection or a later phase,
\* no progress_to_next or go_back_to call brings it to one of the first five
\* phases, and at publication no such call changes the state.
C29_NoReturnToPlanning ==
  [][ /\ current_state \notin EarlyPhases => current_state' \notin EarlyPhases
      /\ current_state = PUBLICATION
           => /\ current_state' = PUBLICATION
              /\ context' = context
              /\ result'.ret = FALSE ]_vars

C29_Witness ==
  /\ current_state = PUBLICATION
  /\ result.op = "go_back_to"
  /\ result.phase = PROBLEM_FORMULATION
  /\ result.ret = FALSE
  /\ EndsWithTransition(context, WRITING, PUBLICATION)

----------------------------------------------------------------------------
(* Properties of the validation results *)

Validators == { FINER, PRISMA, NIH }

\* C21: the score of every validation result is between 0 and 1: that of the
\* result validate_entry or validate_exit returned, and that of can_enter and
\* can_exit of each of the three validators on the project and the phase
\* history at hand.
C21_ScoreInUnitInterval ==
  /\ result.op \in { "validate_entry", "validate_exit" }
       => result.validation.score \in 0..ScoreScale
  /\ \A v \in Validators :
        /\ can_enter(v, context, fs).score \in 0..ScoreScale
        /\ can_exit(v, context, fs).score \in 0..ScoreScale

C21_Witness ==
  /\ result.op = "validate_exit"
  /\ result.phase = PROBLEM_FORMULATION
  /\ result.validation.passed
  /\ result.validation.score > 0
  /\ result.validation.score < ScoreScale
  /\ { "feasible", "practical", "clinical" } \subseteq fs.text[PROBLEM_STATEMENT]
  /\ HYPOTHESIS_FORMATION \in CompletedPhases(context)

RequiredArtifacts ==
  [ p \in { PROBLEM_FORMULATION, LITERATURE_REVIEW, EXPERIMENTAL_DESIGN } |->
      CASE p = PROBLEM_FORMULATION -> { PROBLEM_STATEMENT }
        [] p = LITERATURE_REVIEW   -> PrismaFour
        [] p = EXPERIMENTAL_DESIGN -> NihThree ]

\* C22: the exit gate of each of the three validators, run on a project that
\* lacks a required artifact, returns a result that does not pass, lists the
\* missing path in missing_items and has a blocking issue.
C22_MissingArtifactBlocks ==
  (result.op = "validate_exit" /\ result.phase \in DOMAIN RequiredArtifacts)
    => \A p \in RequiredArtifacts[result.phase] \ fs.files :
          /\ result.validation.passed = FALSE
          /\ \E i \in 1..Len(result.validation.missing_items) :
                result.validation.missing_items[i] = p
          /\ result.validation.blocking_issues # <<>>

C22_Witness ==
  /\ result.op = "validate_exit"
  /\ result.phase = EXPERIMENTAL_DESIGN
  /\ NihThree \ fs.files = { PROTOCOL }
  /\ PowerStated(fs)
  /\ SeedStated(fs)
  /\ result.validation.passed = FALSE
  /\ result.validation.missing_items = << PROTOCOL >>
  /\ Len(result.validation.blocking_issues) = 1

\* a context that shares nothing but the phase history with ctx
HistoryOnly(ctx) ==
  [ WorkflowContext(PROBLEM_FORMULATION) EXCEPT
      !.phase_history = ctx.phase_history ]

\* C23: a validation changes neither the context nor the state of the
\* machine nor the project, and its passed flag and score are those of a
\* validation of the same phase on the same project and phase history,
\* whatever else the context holds.
C23_ValidatorsPure ==
  [][ (Called("validate_entry") \/ Called("validate_exit"))
        => /\ context' = context
           /\ current_state' = current_state
           /\ fs' = fs
           /\ LET again ==
                     IF result'.op = "validate_entry"
                     THEN validate_entry(HistoryOnly(context), fs, result'.phase)
                     ELSE validate_exit(HistoryOnly(context), fs, result'.phase)
              IN /\ again.passed = result'.validation.passed
                 /\ again.score = result'.validation.score ]_vars

C23_Witness ==
  /\ result.op = "validate_exit"
  /\ result.phase = HYPOTHESIS_FORMATION
  /\ result.validation.passed = FALSE
  /\ context.current_phase = HYPOTHESIS_FORMATION
  /\ CompletedPhases(context) = { PROBLEM_FORMULATION }
  /\ Len(context.audit_trail) >= 3

====
